---- MODULE Spec2Model ----
(***************************************************************************)
(* A model of pytopia/project-telegram-statistics:                         *)
(*   - ChatStatistics (src/src/chat_statistics/stats.py, the package       *)
(*     variant, and src/src/stats.py, the script variant): get_top_users,  *)
(*     remove_stopwords, de_emojify, generate_word_cloud;                  *)
(*   - ChatGraph (src/src/chat_statistics/graph.py): red2blue and          *)
(*     generate_graph.                                                     *)
(*                                                                         *)
(* A text is a sequence of characters; a character is one of the strings   *)
(* below.  "AQ" stands for the Arabic question mark U+061F, "E" for an     *)
(* emoji code point, "Z" for the directional control U+2066.               *)
(***************************************************************************)
EXTENDS Integers, Sequences, FiniteSets, TLC

VARIABLES
    loaded,        \* the messages as json.load returned them (never written)
    chat_data,     \* self.chat_data['messages'], which the operations may rewrite
    op,            \* the operation that ran last, with its arguments
    counter,       \* get_top_users: Counter(users), in first-seen order
    top_users,     \* get_top_users: dict(Counter(users).most_common(top_n))
    returned,      \* get_top_users: what the call returned
    err,           \* the exception the last operation raised, "" when none
    cloud,         \* generate_word_cloud: the text gathered and what was rendered
    rb_n,          \* red2blue: the argument n
    rb_i,          \* red2blue: the loop index i
    rb_colors,     \* red2blue: the list colors
    rb_pc,         \* red2blue: "loop", "done" or the exception raised
    idx,           \* generate_graph: how many messages the loop has processed
    users,         \* generate_graph: the dict users, in insertion order
    message_writer,\* generate_graph: message id -> from_id
    conections,    \* generate_graph: (responder, author) -> multiplicity
    interactions,  \* generate_graph: from_id -> interaction count
    reply_to,      \* generate_graph: the local reply_to, <<>> while unbound
    node_value,    \* generate_graph: the list node_value
    users_color,   \* generate_graph: the list users_color
    graph,         \* generate_graph: the nodes and edges handed to pyvis
    gpc            \* generate_graph: "loop", "done" or the exception raised

statsVars == <<loaded, chat_data, op, counter, top_users, returned, err, cloud>>
colorVars == <<rb_n, rb_i, rb_colors, rb_pc>>
graphVars == <<idx, users, message_writer, conections, interactions, reply_to,
               node_value, users_color, graph, gpc>>
vars == <<statsVars, colorVars, graphVars>>

----------------------------------------------------------------------------
(* Sequences *)

Range(s) == {s[k] : k \in 1..Len(s)}

RECURSIVE Concat(_)
Concat(ss) == IF ss = <<>> THEN <<>> ELSE Head(ss) \o Concat(Tail(ss))

----------------------------------------------------------------------------
(* Messages of a chat export *)

\* A text field: absent key, JSON null, a string, or a list of fragments.  A
\* fragment is a bare string (type "plain") or a dict with 'type' and 'text'.
Frag(t, s) == [type |-> t, text |-> s]
NoText     == [kind |-> "absent", frags |-> <<>>]
NullText   == [kind |-> "null", frags |-> <<>>]
Str(s)     == [kind |-> "str", frags |-> <<Frag("plain", s)>>]
List(fs)   == [kind |-> "list", frags |-> fs]

StrOf(text) == text.frags[1].text

\* Python truthiness of msg.get('text'): None, '' and [] are falsy.
Falsy(text) ==
    \/ text.kind \in {"absent", "null"}
    \/ text.kind = "list" /\ text.frags = <<>>
    \/ text.kind = "str" /\ StrOf(text) = <<>>

\* A message: reply is <<>> when the key reply_to_message_id is absent, <<id>>
\* otherwise; from is "None" for a JSON null.
Message(type, id, text, from, from_id, reply) ==
    [type |-> type, id |-> id, text |-> text, from |-> from,
     from_id |-> from_id, reply |-> reply]

None == "None"

----------------------------------------------------------------------------
(* ChatStatistics.rebuild_msg and the question test *)

\* rebuild_msg: the concatenation of the fragments' texts.
rebuild_msg(sub_messages) ==
    Concat([k \in 1..Len(sub_messages) |-> sub_messages[k].text])

Terminators == {"!", ".", "?", "AQ"}

RECURSIVE Strip(_)
Strip(s) ==
    IF s = <<>> THEN <<>>
    ELSE IF Head(s) = " " THEN Strip(Tail(s))
    ELSE IF s[Len(s)] = " " THEN Strip(SubSeq(s, 1, Len(s) - 1))
    ELSE s

\* hazm's sent_tokenize: a sentence ends after a run of terminators that is
\* followed by white space; sentences are stripped and empty ones dropped.
RECURSIVE SentSplit(_, _, _)
SentSplit(s, cur, acc) ==
    IF s = <<>>
    THEN IF Strip(cur) = <<>> THEN acc ELSE Append(acc, Strip(cur))
    ELSE IF Head(s) = " " /\ cur # <<>> /\ cur[Len(cur)] \in Terminators
    THEN SentSplit(Tail(s), <<>>, Append(acc, Strip(cur)))
    ELSE SentSplit(Tail(s), Append(cur, Head(s)), acc)

sent_tokenize(s) == SentSplit(s, <<>>, <<>>)

\* A faulty variant of SentenceAsks: only the Latin mark is looked for.
SentenceAsksLatinOnly(sentence) == "?" \in Range(sentence)

\* ('?' not in sentence) and ('AQ' not in sentence): continue
SentenceAsks(sentence) == "?" \in Range(sentence) \/ "AQ" \in Range(sentence)

\* The loop over the sentences of one message's text.
AnySentenceAsks(s) ==
    LET sentences == sent_tokenize(s)
    IN  \E k \in 1..Len(sentences) : SentenceAsks(sentences[k])

----------------------------------------------------------------------------
(* ChatStatistics.get_top_users *)

\* The first loop: texts that are not strings are rebuilt in place and the ids
\* of the messages with a question are marked.  guard is the script variant's
\* "if not msg.get('text'): continue"; without it msg['text'] raises KeyError
\* on an absent key and rebuild_msg(None) raises TypeError.
RECURSIVE MarkQuestions(_, _, _, _)
MarkQuestions(msgs, k, is_question, guard) ==
    IF k > Len(msgs)
    THEN [data |-> msgs, is_question |-> is_question, err |-> ""]
    ELSE LET text == msgs[k].text IN
         IF guard /\ Falsy(text)
         THEN MarkQuestions(msgs, k + 1, is_question, guard)
         ELSE IF text.kind = "absent"
         THEN [data |-> msgs, is_question |-> is_question, err |-> "KeyError"]
         ELSE IF text.kind = "null"
         THEN [data |-> msgs, is_question |-> is_question, err |-> "TypeError"]
         ELSE LET t == IF text.kind = "str" THEN text
                       ELSE Str(rebuild_msg(text.frags))
                  asks == AnySentenceAsks(StrOf(t))
              IN  MarkQuestions([msgs EXCEPT ![k].text = t], k + 1,
                                IF asks THEN is_question \cup {msgs[k].id}
                                ELSE is_question,
                                guard)

\* not msg.get('reply_to_message_id'): the key is absent or the id is 0.
NoReply(m) == m.reply = <<>> \/ m.reply[1] = 0

\* The second loop: users, the authors of the replies to marked messages.
RECURSIVE RepliesToQuestions(_, _)
RepliesToQuestions(msgs, is_question) ==
    IF msgs = <<>> THEN <<>>
    ELSE LET m == Head(msgs)
             rest == RepliesToQuestions(Tail(msgs), is_question)
         IN  IF NoReply(m) THEN rest
             ELSE IF m.reply[1] \notin is_question THEN rest
             ELSE <<m.from>> \o rest

\* collections.Counter(items): one entry per key in first-seen order.
CounterAdd(c, u) ==
    IF \E k \in 1..Len(c) : c[k].key = u
    THEN [k \in 1..Len(c) |->
            IF c[k].key = u THEN [c[k] EXCEPT !.count = @ + 1] ELSE c[k]]
    ELSE Append(c, [key |-> u, count |-> 1])

RECURSIVE Counter(_)
Counter(us) ==
    IF us = <<>> THEN <<>>
    ELSE CounterAdd(Counter(SubSeq(us, 1, Len(us) - 1)), us[Len(us)])

\* sorted(items, key=count, reverse=True): stable, equal counts keep their order.
InsertDesc(s, x) ==
    LET p == Cardinality({k \in 1..Len(s) : s[k].count >= x.count})
    IN  SubSeq(s, 1, p) \o <<x>> \o SubSeq(s, p + 1, Len(s))

RECURSIVE SortDesc(_)
SortDesc(c) ==
    IF c = <<>> THEN <<>>
    ELSE InsertDesc(SortDesc(SubSeq(c, 1, Len(c) - 1)), c[Len(c)])

\* Counter.most_common(n) = heapq.nlargest(n, items, key=count)
\*                        = sorted(items, key=count, reverse=True)[:n]
most_common(c, n) ==
    LET s == SortDesc(c) IN SubSeq(s, 1, IF n < Len(s) THEN n ELSE Len(s))

\* op before any operation has run on the object.
Op(name, variant, top_n, frequencies, mask) ==
    [name |-> name, variant |-> variant, top_n |-> top_n,
     generate_from_frequencies |-> frequencies, mask_image_path |-> mask]

Loaded == Op("load", "", 0, FALSE, None)

\* cloud before generate_word_cloud has run.
NoCloud ==
    [text_content |-> <<>>, reshaped_tokens_count |-> <<>>, kind |-> "none",
     frequencies |-> <<>>, text |-> <<>>, written |-> FALSE]

ReturnedDict(d) == [isNone |-> FALSE, dict |-> d]
ReturnedNone    == [isNone |-> TRUE, dict |-> <<>>]

\* get_top_users of src/src/chat_statistics/stats.py: no guard on the text, the
\* mapping is returned.
GetTopUsersPackage(top_n) ==
    /\ op = Loaded
    /\ \E r \in {MarkQuestions(chat_data, 1, {}, FALSE)} :
       \E c \in {Counter(RepliesToQuestions(r.data, r.is_question))} :
       \E t \in {most_common(c, top_n)} :
          /\ chat_data' = r.data
          /\ op' = Op("get_top_users", "package", top_n, FALSE, None)
          /\ err' = r.err
          /\ counter' = IF r.err = "" THEN c ELSE <<>>
          /\ top_users' = IF r.err = "" THEN t ELSE <<>>
          /\ returned' = IF r.err = "" THEN ReturnedDict(t) ELSE ReturnedNone
          /\ UNCHANGED <<loaded, cloud, colorVars, graphVars>>

\* get_top_users of src/src/stats.py: falsy texts are skipped, the mapping is
\* drawn as a bar plot and the function ends without a return statement.
GetTopUsersScript(top_n) ==
    /\ op = Loaded
    /\ \E r \in {MarkQuestions(chat_data, 1, {}, TRUE)} :
       \E c \in {Counter(RepliesToQuestions(r.data, r.is_question))} :
       \E t \in {most_common(c, top_n)} :
          /\ chat_data' = r.data
          /\ op' = Op("get_top_users", "script", top_n, FALSE, None)
          /\ err' = r.err
          /\ counter' = c
          /\ top_users' = t
          /\ returned' = ReturnedNone
          /\ UNCHANGED <<loaded, cloud, colorVars, graphVars>>

\* msg_has_question returns True (or falls off its end: None).
ReturnedTrue == [isNone |-> FALSE, dict |-> <<>>]

\* msg_has_question(msg) on the k-th message of the object's chat_data: a text
\* that is not a string is rebuilt in place, then the sentences are searched
\* for a mark.  msg['text'] raises KeyError on an absent key and
\* rebuild_msg(None) raises TypeError.
MsgHasQuestion(k) ==
    /\ op = Loaded
    /\ k \in 1..Len(chat_data)
    /\ op' = Op("msg_has_question", "script", 0, FALSE, None)
    /\ \E text \in {chat_data[k].text} :
          IF text.kind \in {"absent", "null"}
          THEN /\ err' = IF text.kind = "absent" THEN "KeyError" ELSE "TypeError"
               /\ UNCHANGED <<chat_data, returned>>
          ELSE \E t \in {IF text.kind = "str" THEN text
                         ELSE Str(rebuild_msg(text.frags))} :
                  /\ chat_data' = [chat_data EXCEPT ![k].text = t]
                  /\ returned' = IF AnySentenceAsks(StrOf(t))
                                 THEN ReturnedTrue ELSE ReturnedNone
                  /\ err' = ""
    /\ UNCHANGED <<loaded, counter, top_users, cloud, colorVars, graphVars>>

----------------------------------------------------------------------------
(* The chat exports get_top_users is run on *)

MaxMsgs == 3
MaxTopN == 1
MaxNullMsgs == 2

UserName(u) == IF u = 1 THEN "A" ELSE IF u = 2 THEN "B" ELSE "C"

\* Messages numbered by their position; a reply names message 2 or the id 9 of
\* no message.  The texts: a plain string, a string of two sentences the second
\* of which ends in the Arabic mark, and a formatted text with the Latin mark.
TopTexts ==
    { Str(<<"a">>),
      Str(<<"a", ".", " ", "AQ">>),
      List(<<Frag("plain", <<"a">>), Frag("bold", <<"?">>)>>) }

TopReplies == {<<>>, <<2>>, <<9>>}

TopShapes ==
    { Message("message", 0, t, UserName(u), u, r) :
        t \in TopTexts, u \in {1, 2}, r \in TopReplies }

\* The export of n messages of the given shapes, numbered from 1.
Numbered(shapes) == [k \in 1..Len(shapes) |-> [shapes[k] EXCEPT !.id = k]]

\* A ChatStatistics or ChatGraph object right after its construction on export e.
Constructed(e) ==
    /\ loaded = e
    /\ chat_data = e
    /\ op = Loaded
    /\ counter = <<>>
    /\ top_users = <<>>
    /\ returned = ReturnedNone
    /\ err = ""
    /\ cloud = NoCloud

\* No call of red2blue, no call of generate_graph under way.
NoColors ==
    rb_n = 0 /\ rb_i = 0 /\ rb_colors = <<>> /\ rb_pc = "idle"

NoGraph ==
    /\ idx = 0
    /\ users = <<>>
    /\ message_writer = <<>>
    /\ conections = <<>>
    /\ interactions = <<>>
    /\ reply_to = <<>>
    /\ node_value = <<>>
    /\ users_color = <<>>
    /\ graph = [nodes |-> {}, edges |-> {}]
    /\ gpc = "idle"

InitTop ==
    /\ \E n \in 0..MaxMsgs : \E shapes \in [1..n -> TopShapes] :
          Constructed(Numbered(shapes))
    /\ NoColors
    /\ NoGraph

NextTop ==
    \E top_n \in 0..MaxTopN :
        \/ GetTopUsersPackage(top_n)
        \/ GetTopUsersScript(top_n)

SpecTop == InitTop /\ [][NextTop]_vars

\* Exports with missing or null fields: a text that is absent or null, an
\* author that is null (a deleted account); a reply names message 1.
NullTexts == {Str(<<"a">>), Str(<<"?">>), NoText, NullText}

NullShapes ==
    { Message("message", 0, t, f, 1, r) :
        t \in NullTexts, f \in {"A", None}, r \in {<<>>, <<1>>} }

InitTopNull ==
    /\ \E n \in 0..MaxNullMsgs : \E shapes \in [1..n -> NullShapes] :
          Constructed(Numbered(shapes))
    /\ NoColors
    /\ NoGraph

SpecTopNull == InitTopNull /\ [][NextTop]_vars

----------------------------------------------------------------------------
(* ChatStatistics.remove_stopwords, de_emojify and generate_word_cloud
   (src/src/stats.py).  "K" is the Arabic letter kaf, which hazm's Normalizer
   rewrites to the Persian "k"; "E" is an emoji and "Z" the control U+2066. *)

NormalizeChar(c) == IF c = "K" THEN "k" ELSE c

\* Normalizer.normalize: characters are refined and runs of spaces collapsed.
RECURSIVE CollapseSpaces(_)
CollapseSpaces(s) ==
    IF Len(s) < 2 THEN s
    ELSE IF s[1] = " " /\ s[2] = " " THEN CollapseSpaces(Tail(s))
    ELSE <<s[1]>> \o CollapseSpaces(Tail(s))

normalize(s) == CollapseSpaces([k \in 1..Len(s) |-> NormalizeChar(s[k])])

\* word_tokenize: the words between the spaces.
RECURSIVE WordSplit(_, _, _)
WordSplit(s, cur, acc) ==
    IF s = <<>> THEN IF cur = <<>> THEN acc ELSE Append(acc, cur)
    ELSE IF Head(s) = " "
    THEN WordSplit(Tail(s), <<>>, IF cur = <<>> THEN acc ELSE Append(acc, cur))
    ELSE WordSplit(Tail(s), Append(cur, Head(s)), acc)

word_tokenize(s) == WordSplit(s, <<>>, <<>>)

\* ' '.join(tokens)
RECURSIVE Join(_)
Join(tokens) ==
    IF tokens = <<>> THEN <<>>
    ELSE IF Len(tokens) = 1 THEN tokens[1]
    ELSE tokens[1] \o <<" ">> \o Join(Tail(tokens))

\* The lines of stopwords.txt, and self.stop_words: the lines normalized.
StopWordLines == {<<"s">>, <<"K">>}
stop_words == {normalize(w) : w \in StopWordLines}

remove_stopwords(text) ==
    LET Kept(item) == item \notin stop_words
    IN  Join(SelectSeq(word_tokenize(normalize(text)), Kept))

\* de_emojify: the pattern deletes the emoji ranges and the directional
\* controls, and demoji.replace finds no emoji left.
de_emojify(text) ==
    LET Kept(c) == c \notin {"E", "Z"} IN SelectSeq(text, Kept)

\* arabic_reshaper.reshape then get_display: both rewrite Arabic-script letters
\* only, and the exports drawn for the word cloud hold none.
reshape_display(text) == text

AcceptedTypes == {"text_link", "bold", "italic", "hashtag", "mention", "pre"}

\* The inner loop over the fragments of a formatted text.
RECURSIVE FragmentsContent(_)
FragmentsContent(frags) ==
    IF frags = <<>> THEN <<>>
    ELSE LET f == Head(frags) IN
         (IF f.type = "plain" \/ f.type \in AcceptedTypes
          THEN <<" ">> \o remove_stopwords(f.text)
          ELSE <<>>) \o FragmentsContent(Tail(frags))

\* The loop that gathers text_content.
RECURSIVE TextContent(_)
TextContent(msgs) ==
    IF msgs = <<>> THEN <<>>
    ELSE LET text == Head(msgs).text IN
         (IF Falsy(text) THEN <<>>
          ELSE IF text.kind = "list" THEN FragmentsContent(text.frags)
          ELSE <<" ">> \o remove_stopwords(StrOf(text)))
         \o TextContent(Tail(msgs))

\* Counter(tokens).most_common(100)
TopWords == 100

\* The loop that fills reshaped_tokens_count from top_n_words.
RECURSIVE ReshapedTokensCount(_)
ReshapedTokensCount(top_n_words) ==
    IF top_n_words = <<>> THEN <<>>
    ELSE LET rest == ReshapedTokensCount(SubSeq(top_n_words, 1, Len(top_n_words) - 1))
             e == top_n_words[Len(top_n_words)]
             token == reshape_display(de_emojify(e.key))
         IN  IF \E k \in 1..Len(rest) : rest[k].key = token
             THEN [k \in 1..Len(rest) |->
                     IF rest[k].key = token
                     THEN [rest[k] EXCEPT !.count = @ + e.count] ELSE rest[k]]
             ELSE Append(rest, [key |-> token, count |-> e.count])

CanRender == op.name # "generate_word_cloud"

\* mask_image_path is None: mask is never assigned, and WordCloud(..., mask=mask)
\* raises UnboundLocalError before anything is rendered.
GenerateWordCloudNoMask(frequencies) ==
    /\ CanRender
    /\ op' = Op("generate_word_cloud", "script", 0, frequencies, None)
    /\ cloud' = [NoCloud EXCEPT !.text_content = TextContent(chat_data)]
    /\ err' = "UnboundLocalError"
    /\ UNCHANGED <<loaded, chat_data, counter, top_users, returned, colorVars,
                   graphVars>>

\* generate_from_frequencies: the rasterizer is handed top_n_words.
GenerateWordCloudFromFrequencies(mask) ==
    /\ CanRender
    /\ mask # None
    /\ op' = Op("generate_word_cloud", "script", 0, TRUE, mask)
    /\ \E text_content \in {TextContent(chat_data)} :
       \E top_n_words \in
            {most_common(Counter(word_tokenize(normalize(text_content))), TopWords)} :
          cloud' = [text_content |-> text_content,
                    reshaped_tokens_count |-> ReshapedTokensCount(top_n_words),
                    kind |-> "frequencies",
                    frequencies |-> top_n_words,
                    text |-> <<>>,
                    written |-> TRUE]
    /\ err' = ""
    /\ UNCHANGED <<loaded, chat_data, counter, top_users, returned, colorVars,
                   graphVars>>

\* Otherwise the rasterizer is handed the text, stripped and reshaped.
GenerateWordCloudFromText(mask) ==
    /\ CanRender
    /\ mask # None
    /\ op' = Op("generate_word_cloud", "script", 0, FALSE, mask)
    /\ \E text_content \in {TextContent(chat_data)} :
          cloud' = [text_content |-> text_content,
                    reshaped_tokens_count |-> <<>>,
                    kind |-> "text",
                    frequencies |-> <<>>,
                    text |-> reshape_display(de_emojify(text_content)),
                    written |-> TRUE]
    /\ err' = ""
    /\ UNCHANGED <<loaded, chat_data, counter, top_users, returned, colorVars,
                   graphVars>>

MaxCloudMsgs == 2

\* The texts of the exports a word cloud is drawn from: words, a stop word, a
\* word with an emoji or a control character on it, a word with the Arabic kaf,
\* a formatted text with a fragment of a type the loop passes over, no text.
CloudTexts ==
    { Str(<<"a">>),
      Str(<<"s", " ", "a", "E">>),
      Str(<<"Z", "a", " ", " ", "a">>),
      Str(<<"K", " ", "b">>),
      List(<<Frag("plain", <<"a", " ", "s">>), Frag("bold", <<"b">>),
             Frag("code", <<"c">>)>>),
      NoText }

CloudShapes == {Message("message", 0, t, "A", 1, <<>>) : t \in CloudTexts}

\* One ChatStatistics object of the script: get_top_users or msg_has_question
\* on one of its messages, then generate_word_cloud, or any of them alone.
Init ==
    /\ \E n \in 0..MaxCloudMsgs : \E shapes \in [1..n -> CloudShapes] :
          Constructed(Numbered(shapes))
    /\ NoColors
    /\ NoGraph

Next ==
    \/ \E top_n \in 0..MaxTopN : GetTopUsersScript(top_n)
    \/ \E k \in 1..MaxCloudMsgs : MsgHasQuestion(k)
    \/ \E frequencies \in BOOLEAN : GenerateWordCloudNoMask(frequencies)
    \/ GenerateWordCloudFromFrequencies("mask.png")
    \/ GenerateWordCloudFromText("mask.png")

Spec == Init /\ [][Next]_vars

----------------------------------------------------------------------------
(* ChatGraph.red2blue *)

\* The width of the gradient: d = 256 / n, int(256 - d * i), int(d * i).
Span == 256

\* d and d * i are IEEE-754 doubles.  Where d * i is not rounded across an
\* integer, int(d * i) is the floor of 256 * i / n.  For n below 300 the
\* rounded product falls just below the integer 256 * i / n in exactly these
\* cases <<n, i>> (d was rounded down and the product stays below), and int()
\* then yields one less; int(256 - d * i) is 256 less the ceiling of
\* 256 * i / n in every case.
ProductBelow == {<<98, 49>>, <<196, 49>>, <<196, 98>>, <<196, 147>>,
                 <<206, 103>>, <<214, 107>>}

Blue(n, i) ==
    IF <<n, i>> \in ProductBelow THEN (Span * i) \div n - 1 ELSE (Span * i) \div n

Red(n, i) == Span - ((Span * i + n - 1) \div n)

\* A faulty variant of rgb: the quotient upside down, d = n / 256.
rgb_inverted_step(n, i) == <<Span - ((n * i + Span - 1) \div Span), 0, (n * i) \div Span>>

\* rgb = (int(256 - (d * i)), 0, int(d * i))
rgb(n, i) == <<Red(n, i), 0, Blue(n, i)>>

HexDigit(v) ==
    <<"0", "1", "2", "3", "4", "5", "6", "7", "8", "9",
      "a", "b", "c", "d", "e", "f">>[v + 1]

RECURSIVE Hex(_)
Hex(v) == IF v < 16 THEN <<HexDigit(v)>> ELSE Hex(v \div 16) \o <<HexDigit(v % 16)>>

\* '%02x' % v for v >= 0: at least two digits, zero-padded, never cut.
Hex02(v) == IF v < 16 THEN <<"0">> \o Hex(v) ELSE Hex(v)

\* '#%02x%02x%02x' % rgb
HexColor(c) == <<"#">> \o Hex02(c[1]) \o Hex02(c[2]) \o Hex02(c[3])

\* red2blue(n) as a whole, for its caller generate_graph (n >= 1).
red2blue(n) == [k \in 1..n |-> HexColor(rgb(n, k - 1))]

\* d = 256 / n
Red2BlueEnter ==
    /\ rb_pc = "call"
    /\ rb_pc' = IF rb_n = 0 THEN "ZeroDivisionError" ELSE "loop"
    /\ UNCHANGED <<rb_n, rb_i, rb_colors, statsVars, graphVars>>

\* One iteration of "for i in range(n)".
Red2BlueLoop ==
    /\ rb_pc = "loop"
    /\ rb_i < rb_n
    /\ rb_colors' = Append(rb_colors, HexColor(rgb(rb_n, rb_i)))
    /\ rb_i' = rb_i + 1
    /\ UNCHANGED <<rb_n, rb_pc, statsVars, graphVars>>

\* return colors
Red2BlueReturn ==
    /\ rb_pc = "loop"
    /\ rb_i = rb_n
    /\ rb_pc' = "done"
    /\ UNCHANGED <<rb_n, rb_i, rb_colors, statsVars, graphVars>>

MaxColorN == 258

InitColors ==
    /\ Constructed(<<>>)
    /\ NoGraph
    /\ rb_n \in 0..MaxColorN
    /\ rb_i = 0
    /\ rb_colors = <<>>
    /\ rb_pc = "call"

NextColors == Red2BlueEnter \/ Red2BlueLoop \/ Red2BlueReturn

SpecColors == InitColors /\ [][NextColors]_vars

----------------------------------------------------------------------------
(* ChatGraph.generate_graph *)

\* A dict as a function on its keys; defaultdict(int) reads 0 for a new key.
Put(d, k, v) == [x \in (DOMAIN d) \cup {k} |-> IF x = k THEN v ELSE d[x]]
Get0(d, k)   == IF k \in DOMAIN d THEN d[k] ELSE 0
Inc(d, k)    == Put(d, k, Get0(d, k) + 1)

UserIds(us) == {us[k].id : k \in 1..Len(us)}

\* The first half of the loop body: users and message_writer.  The names of the
\* exports drawn here hold no emoji, so demoji.replace leaves them as they are.
UsersAfter(m) ==
    IF m.type = "message" /\ m.from_id \notin UserIds(users) /\ m.from # None
    THEN Append(users, [id |-> m.from_id, name |-> m.from])
    ELSE users

WriterAfter(m) ==
    IF m.type = "message" THEN Put(message_writer, m.id, m.from_id)
    ELSE message_writer

\* if reply_to_id in message_writer: reply_to = message_writer[reply_to_id]
\* (otherwise reply_to keeps what an earlier iteration left in it).
ReplyToAfter(m) ==
    IF m.reply[1] \in DOMAIN WriterAfter(m) THEN <<WriterAfter(m)[m.reply[1]]>>
    ELSE reply_to

Looping == gpc = "loop" /\ idx < Len(chat_data)

\* A message without the key reply_to_message_id.
ProcessNoReply ==
    /\ Looping
    /\ LET m == chat_data[idx + 1] IN
       /\ m.reply = <<>>
       /\ users' = UsersAfter(m)
       /\ message_writer' = WriterAfter(m)
       /\ idx' = idx + 1
    /\ UNCHANGED <<conections, interactions, reply_to, node_value, users_color,
                   graph, gpc, statsVars, colorVars>>

\* A message with the key: the three increments are not under the "if", so
\* they run for every such message once reply_to is bound.
ProcessReply ==
    /\ Looping
    /\ LET m == chat_data[idx + 1] IN
       /\ m.reply # <<>>
       /\ ReplyToAfter(m) # <<>>
       /\ users' = UsersAfter(m)
       /\ message_writer' = WriterAfter(m)
       /\ reply_to' = ReplyToAfter(m)
       /\ conections' = Inc(conections, <<m.from_id, ReplyToAfter(m)[1]>>)
       /\ interactions' = Inc(Inc(interactions, m.from_id), ReplyToAfter(m)[1])
       /\ idx' = idx + 1
    /\ UNCHANGED <<node_value, users_color, graph, gpc, statsVars, colorVars>>

\* A message with the key while reply_to was never assigned: reading it raises
\* UnboundLocalError.
ProcessReplyUnbound ==
    /\ Looping
    /\ LET m == chat_data[idx + 1] IN
       /\ m.reply # <<>>
       /\ ReplyToAfter(m) = <<>>
       /\ users' = UsersAfter(m)
       /\ message_writer' = WriterAfter(m)
       /\ gpc' = "UnboundLocalError"
    /\ UNCHANGED <<idx, conections, interactions, reply_to, node_value,
                   users_color, graph, statsVars, colorVars>>

\* node_value: 1 for a user without interactions, interactions + 1 otherwise.
NodeValue(us, inter) ==
    [k \in 1..Len(us) |->
        IF us[k].id \notin DOMAIN inter THEN 1 ELSE inter[us[k].id] + 1]

InsertIntDesc(s, x) ==
    LET p == Cardinality({k \in 1..Len(s) : s[k] >= x})
    IN  SubSeq(s, 1, p) \o <<x>> \o SubSeq(s, p + 1, Len(s))

InsertIntAsc(s, x) ==
    LET p == Cardinality({k \in 1..Len(s) : s[k] <= x})
    IN  SubSeq(s, 1, p) \o <<x>> \o SubSeq(s, p + 1, Len(s))

\* A faulty variant of sorted_reverse: reverse=True left out.
RECURSIVE sorted_ascending(_)
sorted_ascending(s) ==
    IF s = <<>> THEN <<>>
    ELSE InsertIntAsc(sorted_ascending(SubSeq(s, 1, Len(s) - 1)), s[Len(s)])

\* sorted(node_value, reverse=True)
RECURSIVE sorted_reverse(_)
sorted_reverse(s) ==
    IF s = <<>> THEN <<>>
    ELSE InsertIntDesc(sorted_reverse(SubSeq(s, 1, Len(s) - 1)), s[Len(s)])

\* for i in range(len(colors)): value_color_dict[sorted_node_value[i]] = colors[i]
\* the last position of a value decides its color.
ValueColor(sorted_node_value, colors, v) ==
    LET last == CHOOSE j \in 1..Len(colors) :
                    /\ sorted_node_value[j] = v
                    /\ \A k \in j + 1..Len(colors) : sorted_node_value[k] # v
    IN  colors[last]

\* After the loop, with at least one user: the node values, the colors, the
\* nodes and the edges between nodes.
GraphFinish ==
    /\ gpc = "loop"
    /\ idx = Len(chat_data)
    /\ users # <<>>
    /\ \E nv \in {NodeValue(users, interactions)} :
       \E colors \in {red2blue(Len(users))} :
          /\ node_value' = nv
          /\ rb_n' = Len(users)
          /\ rb_i' = Len(users)
          /\ rb_colors' = colors
          /\ rb_pc' = "done"
          /\ users_color' =
                [k \in 1..Len(nv) |-> ValueColor(sorted_reverse(nv), colors, nv[k])]
    /\ graph' = [nodes |-> UserIds(users),
                 edges |-> {e \in DOMAIN conections :
                              e[1] \in UserIds(users) /\ e[2] \in UserIds(users)}]
    /\ gpc' = "done"
    /\ UNCHANGED <<idx, users, message_writer, conections, interactions,
                   reply_to, statsVars>>

\* After the loop, with no user: red2blue(0) divides by zero.
GraphFinishNoUsers ==
    /\ gpc = "loop"
    /\ idx = Len(chat_data)
    /\ users = <<>>
    /\ rb_pc' = "ZeroDivisionError"
    /\ gpc' = "ZeroDivisionError"
    /\ UNCHANGED <<idx, users, message_writer, conections, interactions,
                   reply_to, node_value, users_color, graph, rb_n, rb_i,
                   rb_colors, statsVars>>

MaxGraphMsgs == 3

\* Messages numbered by their position, by three users, one of whom also posts
\* under a null name; a reply names message 1 or the id 9 of no message.  A
\* service event is not of type 'message' and carries no reply.
GraphAuthors == {<<1, "A">>, <<2, "B">>, <<3, "C">>, <<3, None>>}

GraphShapes ==
    { Message("message", 0, Str(<<"a">>), a[2], a[1], r) :
        a \in GraphAuthors, r \in {<<>>, <<1>>, <<9>>} }
    \cup { Message("service", 0, NoText, "A", 1, <<>>) }

InitGraph ==
    /\ \E n \in 0..MaxGraphMsgs : \E shapes \in [1..n -> GraphShapes] :
          Constructed(Numbered(shapes))
    /\ NoColors
    /\ idx = 0
    /\ users = <<>>
    /\ message_writer = <<>>
    /\ conections = <<>>
    /\ interactions = <<>>
    /\ reply_to = <<>>
    /\ node_value = <<>>
    /\ users_color = <<>>
    /\ graph = [nodes |-> {}, edges |-> {}]
    /\ gpc = "loop"

NextGraph ==
    \/ ProcessNoReply
    \/ ProcessReply
    \/ ProcessReplyUnbound
    \/ GraphFinish
    \/ GraphFinishNoUsers

SpecGraph == InitGraph /\ [][NextGraph]_vars

----------------------------------------------------------------------------
(* What get_top_users is claimed to compute, stated on the export as loaded *)

\* The text of a message as a reader sees it: the fragments in a row.
FlatText(m) == rebuild_msg(m.text.frags)

HasMark(m) == "?" \in Range(FlatText(m)) \/ "AQ" \in Range(FlatText(m))

\* The replies by u to a message of the list that has a question mark.
RepliesBy(u) ==
    { k \in 1..Len(loaded) :
        /\ loaded[k].from = u
        /\ loaded[k].reply # <<>>
        /\ \E j \in 1..Len(loaded) :
              loaded[j].id = loaded[k].reply[1] /\ HasMark(loaded[j]) }

Authors == {loaded[k].from : k \in 1..Len(loaded)} \cup {"A", "B", None}

\* The count recorded for u in Counter(users), 0 when u has no entry.
Recorded(u) ==
    IF \E k \in 1..Len(counter) : counter[k].key = u
    THEN (CHOOSE e \in Range(counter) : e.key = u).count
    ELSE 0

Ranked(d, top_n) ==
    /\ Len(d) <= top_n
    /\ \A k \in 1..Len(d) - 1 : d[k].count >= d[k + 1].count
    /\ \A u \in Authors :
          (\A k \in 1..Len(d) : d[k].key # u)
          => \A k \in 1..Len(d) : Cardinality(RepliesBy(u)) <= d[k].count

Ran == op.name = "get_top_users" /\ err = ""

\* C1: get_top_users(top_n) returns a mapping of at most top_n entries, in
\* non-increasing order of reply count, and no user left out has a strictly
\* higher count than a user included.
TopUsersReturnedRanked ==
    Ran => ~returned.isNone /\ Ranked(returned.dict, op.top_n)

\* What holds of both variants: the mapping built by most_common (returned by
\* the package variant, only plotted by the script variant) is ranked.
TopUsersRanked == Ran => Ranked(top_users, op.top_n)

NullFieldsSkipped ==
    op.name = "get_top_users"
    => /\ err = ""
       /\ \A k \in 1..Len(counter) : counter[k].key # None

----------------------------------------------------------------------------
(* What generate_graph and red2blue are claimed to compute *)

\* The message under the loop refers to an id that message_writer does not
\* hold (the message's own id counts as held: the loop records it first).
UnknownReply(m) ==
    /\ m.reply # <<>>
    /\ m.reply[1] \notin DOMAIN message_writer
    /\ ~(m.type = "message" /\ m.reply[1] = m.id)

\* C3: a message whose reply_to_message_id is not the id of a recorded message
\* is ignored: processing it raises no error and changes neither conections
\* nor any interaction count, whatever was processed before it.
UnknownReplyIgnored ==
    [][ (Looping /\ UnknownReply(chat_data[idx + 1]))
        => /\ gpc' = "loop"
           /\ conections' = conections
           /\ interactions' = interactions ]_vars

\* The replies of the list to a message recorded by then, by responder and by
\* the author of the message replied to.
KnownReplies ==
    { k \in 1..Len(loaded) :
        /\ loaded[k].reply # <<>>
        /\ \E j \in 1..k : /\ loaded[j].type = "message"
                           /\ loaded[j].id = loaded[k].reply[1] }

AuthorRepliedTo(k) ==
    loaded[CHOOSE j \in 1..k : /\ loaded[j].type = "message"
                               /\ loaded[j].id = loaded[k].reply[1]].from_id

AllIds == {loaded[k].from_id : k \in 1..Len(loaded)} \cup {1, 2, 3}

\* C4: after the whole list, a user's interaction count is the number of the
\* replies the user sent to a known message plus the number of replies to the
\* user's messages, and conections[(a, b)] is the number of replies by a to
\* messages of b.
InteractionsCountReplies ==
    gpc = "done"
    => /\ \A u \in AllIds :
            Get0(interactions, u)
              = Cardinality({k \in KnownReplies : loaded[k].from_id = u})
                + Cardinality({k \in KnownReplies : AuthorRepliedTo(k) = u})
       /\ \A a, b \in AllIds :
            Get0(conections, <<a, b>>)
              = Cardinality({k \in KnownReplies :
                               loaded[k].from_id = a /\ AuthorRepliedTo(k) = b})

\* The place of a color in the gradient red2blue returned.
ColorIndex(c) == CHOOSE j \in 1..Len(rb_colors) : rb_colors[j] = c

InteractionsOf(k) == Get0(interactions, users[k].id)

\* C5: of two users in the graph, the one with the strictly higher interaction
\* count has a color whose gradient index is not higher, ties among other
\* users included.
HigherCountNotLaterColor ==
    gpc = "done"
    => \A a, b \in 1..Len(users) :
          InteractionsOf(a) > InteractionsOf(b)
          => ColorIndex(users_color[a]) <= ColorIndex(users_color[b])

\* C5's case: three users in the graph, two with the same count and one with a
\* strictly higher one.
TiedColorsWitness ==
    /\ gpc = "done"
    /\ Len(users) = 3
    /\ \E a, b, c \in 1..3 :
          /\ b # c
          /\ InteractionsOf(a) > InteractionsOf(b)
          /\ InteractionsOf(b) = InteractionsOf(c)
          /\ ColorIndex(users_color[a]) < ColorIndex(users_color[b])

\* C6: for 1 <= K <= 256, red2blue(K) returns exactly K colors, pairwise
\* distinct.
GradientDistinct ==
    (rb_pc = "done" /\ rb_n >= 1 /\ rb_n <= Span)
    => /\ Len(rb_colors) = rb_n
       /\ \A j, k \in 1..Len(rb_colors) :
             rb_colors[j] = rb_colors[k] => j = k

\* C6's case: the widest gradient claimed, 256 colors down to the last one.
GradientWitness ==
    /\ rb_pc = "done"
    /\ rb_n = Span
    /\ Len(rb_colors) = Span
    /\ rb_colors[Span] = <<"#", "0", "1", "0", "0", "f", "f">>

----------------------------------------------------------------------------
(* What generate_word_cloud is claimed to do *)

\* C8: without a mask image path generate_word_cloud completes and writes the
\* image: the mask is optional.
CloudWrittenWithoutMask ==
    (op.name = "generate_word_cloud" /\ op.mask_image_path = None)
    => err = "" /\ cloud.written

Stripped(token) == \A k \in 1..Len(token) : token[k] \notin {"E", "Z"}

\* C9: with generate_from_frequencies the mapping handed to the rasterizer has
\* at most 100 entries, its tokens have the emoji and directional controls
\* stripped, and tokens that coincide once stripped are one entry.
FrequenciesStripped ==
    (op.name = "generate_word_cloud" /\ op.generate_from_frequencies /\ err = "")
    => /\ Len(cloud.frequencies) <= TopWords
       /\ \A k \in 1..Len(cloud.frequencies) : Stripped(cloud.frequencies[k].key)
       /\ \A j, k \in 1..Len(cloud.frequencies) :
             de_emojify(cloud.frequencies[j].key) = de_emojify(cloud.frequencies[k].key)
             => j = k

----------------------------------------------------------------------------
(* What the operations are claimed to leave alone *)

\* C11: the operations share no mutable state: the text content that
\* generate_word_cloud gathers is the one it gathers from the export as
\* loaded, whether or not get_top_users or msg_has_question ran on the object
\* before, and those operations leave every message's text field unchanged.
NoSharedMutableState ==
    /\ op.name = "generate_word_cloud"
          => cloud.text_content = TextContent(loaded)
    /\ op.name \in {"get_top_users", "msg_has_question"}
          => \A k \in 1..Len(loaded) : chat_data[k].text = loaded[k].text

HexDigits ==
    {"0", "1", "2", "3", "4", "5", "6", "7", "8", "9", "a", "b", "c", "d", "e", "f"}

\* C12: for every n >= 1 every element of red2blue(n), the first included, is
\* a hex color: '#' and exactly six hexadecimal digits, the red, green and
\* blue components each in 0..255.
GradientOfHexColors ==
    rb_n >= 1
    => \A k \in 1..Len(rb_colors) :
          /\ Len(rb_colors[k]) = 7
          /\ rb_colors[k][1] = "#"
          /\ \A j \in 2..Len(rb_colors[k]) : rb_colors[k][j] \in HexDigits
          /\ \A j \in 1..3 : rgb(rb_n, k - 1)[j] \in 0..(Span - 1)

====
